---- MODULE Spec2Model ----
(***************************************************************************)
(* The process supervisor of src/app.py: the table RUNNING_PROCESSES, the  *)
(* two directories it works on, the operating system's process table, and  *)
(* the request handlers.  Every handler is an `async def` that runs on the *)
(* one event loop; a handler without an `await` that suspends runs from    *)
(* its first line to its return with no other handler interleaved, so it   *)
(* is one action.  The operating system (processes writing to their log,   *)
(* processes exiting, pids handed out again) moves at any time.            *)
(***************************************************************************)
EXTENDS Integers, Sequences, FiniteSets, TLC

\* ---- bounds of the model ----
MaxPid == 2
MaxLogLen == 2
MaxTime == 1
NumCallers == 2
MaxHandles == 2

\* ---- program constants ----
LOGS_DIR == "/home/ubuntu/script_logs"

\* Script names a client may send (one ending in .py, one not).
Names == {"a.py", "job"}
\* Bodies a client may upload: sequences of bytes, of different lengths.
SmallFile == <<1>>
Contents == {SmallFile, <<2, 2>>}
\* Pids the operating system hands out.
Pids == 1..MaxPid
\* Values of the `lines` query parameter (an int: negative, zero, positive).
LineArgs == (-1)..(MaxLogLen + 1)
Callers == 1..NumCallers
\* Values of datetime.now().
Times == 0..MaxTime

VARIABLES
    scripts,            \* names of the files in SCRIPTS_DIR
    logs,               \* LOGS_DIR: path of each existing log file -> its lines
    RUNNING_PROCESSES,  \* the dict, as the sequence of its items in insertion order
    procs,              \* the operating system's process table: pid -> process
    resp,               \* the response a handler has returned, until it is sent
    restart,            \* progress of the restart_all handler
    stored,             \* the bytes of each file in SCRIPTS_DIR
    race,               \* a burst of concurrent start requests and their answers
    hist,               \* what a run of restart_all did, name by name
    handles,            \* log files opened by start_script and closed by nobody yet
    upl                 \* uploads in flight: each caller's file and how far it got

\* What a scenario records beside the program's state.
watch == <<race, hist, handles, upl>>

vars == <<scripts, stored, logs, RUNNING_PROCESSES, procs, resp, restart, watch>>

\* ---- the operating system's process table ----
Free == [owner |-> "", pgid |-> 0, st |-> "free"]

\* os.path.join(LOGS_DIR, f"{script_name}.log")
LogFile(script_name) == LOGS_DIR \o "/" \o script_name \o ".log"

\* os.path.exists(path) for a path under LOGS_DIR
LogExists(path) == path \in DOMAIN logs

\* A pid the kernel may give to a new process: no process has it, and no
\* process group is still named by it.
PidFree(p) == procs[p] = Free /\ \A q \in Pids : procs[q] = Free \/ procs[q].pgid # p

\* ---- the dict RUNNING_PROCESSES ----
Tracked(n) == \E i \in 1..Len(RUNNING_PROCESSES) : RUNNING_PROCESSES[i].name = n

Entry(n) == RUNNING_PROCESSES[CHOOSE i \in 1..Len(RUNNING_PROCESSES) : RUNNING_PROCESSES[i].name = n]

\* d[n] for a table d
EntryIn(d, n) == d[CHOOSE i \in 1..Len(d) : d[i].name = n]

Keys == [i \in 1..Len(RUNNING_PROCESSES) |-> RUNNING_PROCESSES[i].name]

\* RUNNING_PROCESSES[n] = e : a new key goes last, an existing key keeps its place
DictSet(d, e) ==
    IF \E i \in 1..Len(d) : d[i].name = e.name
    THEN [i \in 1..Len(d) |-> IF d[i].name = e.name THEN e ELSE d[i]]
    ELSE Append(d, e)

\* del RUNNING_PROCESSES[n]
DictDel(d, n) == SelectSeq(d, LAMBDA e : e.name # n)

\* ---- responses ----
NoResp == [op |-> "none", name |-> "", code |-> 0, status |-> "", pid |-> 0,
           start_time |-> -1, lines |-> <<>>, total |-> -1, names |-> <<>>, ts |-> FALSE,
           running_processes |-> -1, scripts |-> {},
           running_scripts |-> -1]

\* A JSON body returned by a handler (HTTP 200).
Body(op, name, status, ts) ==
    [NoResp EXCEPT !.op = op, !.name = name, !.code = 200, !.status = status, !.ts = ts]

\* raise HTTPException(status_code=code, detail=...): the body is {"detail": ...}
HTTPException(op, name, code) ==
    [NoResp EXCEPT !.op = op, !.name = name, !.code = code, !.status = "detail"]

\* The event loop takes the next request: no handler is running and the last
\* response is sent.
Idle == restart.phase = "idle" /\ resp = NoResp
\* restart_all's locals: the keys still to visit, the name in hand, restarted.
NoRestart == [phase |-> "idle", keys |-> <<>>, cur |-> "", restarted |-> <<>>]
\* The record of a run of restart_all: the table when it began, what
\* stop_script answered for the name in hand, and for each name visited the
\* two answers and the entry its start inserted.
NoEntry == [name |-> "", pid |-> 0, start_time |-> -1, log_file |-> ""]
NoHist == [before |-> <<>>, stop |-> 0, done |-> <<>>]
\* No upload in flight for a caller.
NoUpload == [phase |-> "none", name |-> "", content |-> <<>>]
\* What a caller of the burst keeps of its answer.
NoAnswer == [code |-> 0, status |-> "", pid |-> 0]
NoRace == [req |-> [c \in Callers |-> ""], ans |-> [c \in Callers |-> NoAnswer],
           spawned |-> [n \in Names |-> 0]]

Init ==
    /\ scripts = {}
    /\ stored = <<>>
    /\ logs = <<>>
    /\ RUNNING_PROCESSES = <<>>
    /\ procs = [p \in Pids |-> Free]
    /\ resp = NoResp
    /\ restart = NoRestart
    /\ race = NoRace
    /\ hist = NoHist
    /\ handles = 0
    /\ upl = [c \in Callers |-> NoUpload]

\* What a call of start_script or stop_script hands back: the status code, the
\* kind of body, and the pid in the body (0 when the body has none).
Raised(code) == [code |-> code, status |-> "detail", pid |-> 0]
Returned(status, pid) == [code |-> 200, status |-> status, pid |-> pid]
StartRets == {Raised(404), Raised(500)}
                \cup {Returned(st, p) : st \in {"started", "already_running"}, p \in Pids}
StopRets == {Raised(404), Raised(500), Returned("stopped", 0)}

\* ---- GET / ----
\* The capability listing: a fixed body, without a timestamp.
root ==
    /\ Idle
    /\ resp' = Body("root", "", "endpoints", FALSE)
    /\ UNCHANGED <<scripts, stored, logs, RUNNING_PROCESSES, procs, restart, watch>>

\* ---- GET /health ----
health_check ==
    /\ Idle
    /\ resp' = [Body("health", "", "healthy", TRUE) EXCEPT
                    !.running_processes = Len(RUNNING_PROCESSES)]
    /\ UNCHANGED <<scripts, stored, logs, RUNNING_PROCESSES, procs, restart, watch>>

\* ---- POST /upload ----
\* open(script_path, "wb") creates the file; nothing here reads its bytes.
\* open(script_path, "wb"): creates the file or empties it
OpenWb(dir, path) ==
    [f \in DOMAIN dir \cup {path} |-> IF f = path THEN <<>> ELSE dir[f]]

\* f.write(content) and the close that flushes it: the handle opened by this
\* request stands at offset 0, so the bytes go over the start of whatever the
\* file holds by now, and what lies beyond them stays.
WriteClose(old, content) == content \o SubSeq(old, Len(content) + 1, Len(old))

\* upload_script up to `await file.read()`: the file is open and empty, the
\* handler waits for the body and the event loop serves other requests.
UploadOpen(c, n, content) ==
    /\ Idle
    /\ upl[c] = NoUpload
    /\ scripts' = scripts \cup {n}
    /\ stored' = OpenWb(stored, n)
    /\ upl' = [upl EXCEPT ![c] = [phase |-> "read", name |-> n, content |-> content]]
    /\ resp' = NoResp
    /\ UNCHANGED <<logs, RUNNING_PROCESSES, procs, restart, race, hist, handles>>

\* upload_script from the return of `await file.read()` to its own return
UploadWrite(c) ==
    /\ Idle
    /\ upl[c].phase = "read"
    /\ stored' = [stored EXCEPT ![upl[c].name] = WriteClose(@, upl[c].content)]
    /\ upl' = [upl EXCEPT ![c].phase = "done"]
    /\ resp' = [Body("upload", upl[c].name, "uploaded", TRUE) EXCEPT
                    !.total = Len(upl[c].content)]
    /\ UNCHANGED <<scripts, logs, RUNNING_PROCESSES, procs, restart, race, hist, handles>>

\* upload_script whose `await file.read()` returns without waiting (the body
\* is in memory already), or whose open raises.
upload_script(n, content) ==
    /\ Idle
    /\ \/ /\ scripts' = scripts \cup {n}
          /\ stored' = [f \in DOMAIN stored \cup {n} |->
                           IF f = n THEN WriteClose(OpenWb(stored, n)[n], content)
                           ELSE stored[f]]
          /\ resp' = [Body("upload", n, "uploaded", TRUE) EXCEPT !.total = Len(content)]
       \/ /\ resp' = HTTPException("upload", n, 400)
          /\ UNCHANGED <<scripts, stored>>
    /\ UNCHANGED <<logs, RUNNING_PROCESSES, procs, restart, watch>>

\* open(log_file, 'w'): creates the file or empties it
OpenTruncate(dir, path) ==
    [f \in DOMAIN dir \cup {path} |-> IF f = path THEN <<>> ELSE dir[f]]

\* open(log_file, 'a'): creates the file when it is missing, keeps what is there
OpenAppend(dir, path) ==
    IF path \in DOMAIN dir THEN dir
    ELSE [f \in DOMAIN dir \cup {path} |-> IF f = path THEN <<>> ELSE dir[f]]

\* subprocess.Popen(..., preexec_fn=os.setsid): the child leads a new group
Popen(n, p) == [owner |-> n, pgid |-> p, st |-> "running"]

\* start_script without its `if not os.path.exists(script_path)` check
StartCallNoExists(n, ret) ==
    \/ /\ Tracked(n)
       /\ ret = Returned("already_running", Entry(n).pid)
       /\ UNCHANGED <<logs, RUNNING_PROCESSES, procs>>
    \/ /\ ~Tracked(n)
       /\ logs' = OpenAppend(logs, LogFile(n))
       /\ \/ \E p \in Pids, now \in Times :
                /\ PidFree(p)
                /\ procs' = [procs EXCEPT ![p] = Popen(n, p)]
                /\ RUNNING_PROCESSES' = DictSet(RUNNING_PROCESSES,
                       [name |-> n, pid |-> p, start_time |-> now, log_file |-> LogFile(n)])
                /\ ret = Returned("started", p)
          \/ /\ ret = Raised(500)
             /\ UNCHANGED <<RUNNING_PROCESSES, procs>>

\* start_script without its `if script_name in RUNNING_PROCESSES` early return
StartCallNoCheck(n, ret) ==
    \/ /\ n \notin scripts
       /\ ret = Raised(404)
       /\ UNCHANGED <<logs, RUNNING_PROCESSES, procs>>
    \/ /\ n \in scripts
       /\ logs' = OpenAppend(logs, LogFile(n))
       /\ \/ \E p \in Pids, now \in Times :
                /\ PidFree(p)
                /\ procs' = [procs EXCEPT ![p] = Popen(n, p)]
                /\ RUNNING_PROCESSES' = DictSet(RUNNING_PROCESSES,
                       [name |-> n, pid |-> p, start_time |-> now, log_file |-> LogFile(n)])
                /\ ret = Returned("started", p)
          \/ /\ ret = Raised(500)
             /\ UNCHANGED <<RUNNING_PROCESSES, procs>>

\* the body of start_script(script_name); ret is what it returns or raises
StartCall(n, ret) ==
    \/ /\ n \notin scripts
       /\ ret = Raised(404)
       /\ UNCHANGED <<logs, RUNNING_PROCESSES, procs>>
    \/ /\ n \in scripts
       /\ Tracked(n)
       /\ ret = Returned("already_running", Entry(n).pid)
       /\ UNCHANGED <<logs, RUNNING_PROCESSES, procs>>
    \/ /\ n \in scripts
       /\ ~Tracked(n)
       /\ logs' = OpenAppend(logs, LogFile(n))
       /\ \/ \E p \in Pids, now \in Times :
                /\ PidFree(p)
                /\ procs' = [procs EXCEPT ![p] = Popen(n, p)]
                /\ RUNNING_PROCESSES' = DictSet(RUNNING_PROCESSES,
                       [name |-> n, pid |-> p, start_time |-> now, log_file |-> LogFile(n)])
                /\ ret = Returned("started", p)
          \/ \* open or Popen raises
             /\ ret = Raised(500)
             /\ UNCHANGED <<RUNNING_PROCESSES, procs>>

\* ---- POST /start/{script_name} ----
\* The handler, from the request to the response.
StartRequest(n) ==
    /\ Idle
    /\ \E ret \in StartRets :
          /\ StartCall(n, ret)
          /\ resp' = IF ret.code = 200
                     THEN [Body("start", n, ret.status, ret.status = "started") EXCEPT !.pid = ret.pid]
                     ELSE HTTPException("start", n, ret.code)
    /\ UNCHANGED <<scripts, stored, restart>>

start_script(n) == StartRequest(n) /\ UNCHANGED watch

\* os.killpg(pgid, 0): the group is probed, nothing is killed
KillpgNoSignal(table, pgid) == table

\* os.killpg(pgid, 9): every process of the group gets the signal
Killpg(table, pgid) ==
    [p \in DOMAIN table |->
        IF table[p] # Free /\ table[p].pgid = pgid
        THEN [table[p] EXCEPT !.st = "killed"] ELSE table[p]]

\* stop_script without its `if script_name not in RUNNING_PROCESSES` check:
\* the lookup raises KeyError inside the try
StopCallNoCheck(n, ret) ==
    \/ /\ ~Tracked(n)
       /\ ret = Raised(500)
       /\ UNCHANGED <<RUNNING_PROCESSES, procs>>
    \/ /\ Tracked(n)
       /\ LET pid == Entry(n).pid IN
          \/ /\ procs[pid] = Free
             /\ ret = Raised(500)
             /\ UNCHANGED <<RUNNING_PROCESSES, procs>>
          \/ /\ procs[pid] # Free
             /\ ret = Raised(500)
             /\ UNCHANGED <<RUNNING_PROCESSES, procs>>
          \/ /\ procs[pid] # Free
             /\ procs' = Killpg(procs, procs[pid].pgid)
             /\ RUNNING_PROCESSES' = DictDel(RUNNING_PROCESSES, n)
             /\ ret = Returned("stopped", 0)

\* stop_script with the `del` before the os.killpg
StopCallDelFirst(n, ret) ==
    \/ /\ ~Tracked(n)
       /\ ret = Raised(404)
       /\ UNCHANGED <<RUNNING_PROCESSES, procs>>
    \/ /\ Tracked(n)
       /\ RUNNING_PROCESSES' = DictDel(RUNNING_PROCESSES, n)
       /\ LET pid == Entry(n).pid IN
          \/ /\ procs[pid] = Free
             /\ ret = Raised(500)
             /\ UNCHANGED procs
          \/ /\ procs[pid] # Free
             /\ ret = Raised(500)
             /\ UNCHANGED procs
          \/ /\ procs[pid] # Free
             /\ procs' = Killpg(procs, procs[pid].pgid)
             /\ ret = Returned("stopped", 0)

\* stop_script that forgets the entry of a process that is gone
StopCallReap(n, ret) ==
    \/ /\ ~Tracked(n)
       /\ ret = Raised(404)
       /\ UNCHANGED <<RUNNING_PROCESSES, procs>>
    \/ /\ Tracked(n)
       /\ LET pid == Entry(n).pid IN
          \/ /\ procs[pid] = Free
             /\ RUNNING_PROCESSES' = DictDel(RUNNING_PROCESSES, n)
             /\ ret = Returned("stopped", 0)
             /\ UNCHANGED procs
          \/ /\ procs[pid] # Free
             /\ ret = Raised(500)
             /\ UNCHANGED <<RUNNING_PROCESSES, procs>>
          \/ /\ procs[pid] # Free
             /\ procs' = Killpg(procs, procs[pid].pgid)
             /\ RUNNING_PROCESSES' = DictDel(RUNNING_PROCESSES, n)
             /\ ret = Returned("stopped", 0)

\* the body of stop_script(script_name); ret is what it returns or raises
StopCall(n, ret) ==
    \/ /\ ~Tracked(n)
       /\ ret = Raised(404)
       /\ UNCHANGED <<RUNNING_PROCESSES, procs>>
    \/ /\ Tracked(n)
       /\ LET pid == Entry(n).pid IN
          \/ \* os.getpgid(pid) raises ProcessLookupError: no process has the pid
             /\ procs[pid] = Free
             /\ ret = Raised(500)
             /\ UNCHANGED <<RUNNING_PROCESSES, procs>>
          \/ \* os.killpg raises PermissionError: the script runs a program of another user
             /\ procs[pid] # Free
             /\ ret = Raised(500)
             /\ UNCHANGED <<RUNNING_PROCESSES, procs>>
          \/ /\ procs[pid] # Free
             /\ procs' = Killpg(procs, procs[pid].pgid)
             /\ RUNNING_PROCESSES' = DictDel(RUNNING_PROCESSES, n)
             /\ ret = Returned("stopped", 0)

\* ---- POST /stop/{script_name} ----
stop_script(n) ==
    /\ Idle
    /\ \E ret \in StopRets :
          /\ StopCall(n, ret)
          /\ resp' = IF ret.code = 200
                     THEN Body("stop", n, ret.status, TRUE)
                     ELSE HTTPException("stop", n, ret.code)
    /\ UNCHANGED <<scripts, stored, logs, restart, watch>>

\* the probe raises whatever the pid
ProbeRaises(pid) == FALSE

\* psutil.Process(pid), cpu_percent, memory_info: all succeed or one raises
Probe(pid) == procs[pid] # Free

\* get_status that drops the entry of a process it cannot reach
get_status_reap(n) ==
    /\ Idle
    /\ resp' = IF ~Tracked(n) THEN Body("status", n, "stopped", TRUE)
               ELSE IF Probe(Entry(n).pid)
               THEN [Body("status", n, "running", TRUE) EXCEPT
                        !.pid = Entry(n).pid, !.start_time = Entry(n).start_time]
               ELSE Body("status", n, "error", TRUE)
    /\ RUNNING_PROCESSES' = IF Tracked(n) /\ ~Probe(Entry(n).pid)
                            THEN DictDel(RUNNING_PROCESSES, n) ELSE RUNNING_PROCESSES
    /\ UNCHANGED <<scripts, stored, logs, procs, restart, watch>>

\* ---- GET /status/{script_name} ----
get_status(n) ==
    /\ Idle
    /\ resp' = IF ~Tracked(n) THEN Body("status", n, "stopped", TRUE)
               ELSE IF Probe(Entry(n).pid)
               THEN [Body("status", n, "running", TRUE) EXCEPT
                        !.pid = Entry(n).pid, !.start_time = Entry(n).start_time]
               ELSE Body("status", n, "error", TRUE)
    /\ UNCHANGED <<scripts, stored, logs, RUNNING_PROCESSES, procs, restart, watch>>

\* s[i:] of a Python list, i any int
SliceFrom(s, i) ==
    LET start == IF i < 0 THEN (IF Len(s) + i < 0 THEN 0 ELSE Len(s) + i)
                 ELSE (IF i > Len(s) THEN Len(s) ELSE i)
    IN SubSeq(s, start + 1, Len(s))

\* all_lines[-lines:]
RecentLines(all_lines, lines) == SliceFrom(all_lines, 0 - lines)

\* ---- GET /logs/{script_name}?lines=N ----
get_logs(n, lines) ==
    /\ Idle
    /\ LET log_file == IF Tracked(n) THEN Entry(n).log_file ELSE LogFile(n) IN
       resp' = IF ~LogExists(log_file) THEN Body("logs", n, "no_logs", TRUE)
               ELSE [Body("logs", n, "logs", TRUE) EXCEPT
                        !.lines = RecentLines(logs[log_file], lines),
                        !.total = Len(logs[log_file])]
    /\ UNCHANGED <<scripts, stored, logs, RUNNING_PROCESSES, procs, restart, watch>>

\* filename.endswith(suffix)
EndsWith(filename, suffix) ==
    /\ Len(filename) >= Len(suffix)
    /\ SubSeq(filename, Len(filename) - Len(suffix) + 1, Len(filename)) = suffix

\* ---- GET /scripts ----
\* os.listdir gives the names in no particular order and no name twice, so
\* the list in the body is modelled by the set of its items.
list_scripts ==
    /\ Idle
    /\ LET listed == {[name |-> f, size |-> Len(stored[f]), is_running |-> Tracked(f)] :
                          f \in {g \in scripts : EndsWith(g, ".py")}} IN
       resp' = [Body("list", "", "scripts", TRUE) EXCEPT
                    !.scripts = listed, !.total = Cardinality(listed)]
    /\ UNCHANGED <<scripts, stored, logs, RUNNING_PROCESSES, procs, restart, watch>>

\* ---- GET /dashboard ----
dashboard ==
    /\ Idle
    /\ LET all_scripts == {[name |-> f, status |-> IF Tracked(f) THEN "running" ELSE "stopped"] :
                               f \in {g \in scripts : EndsWith(g, ".py")}} IN
       \* total_scripts, running_scripts, scripts; server_time is the timestamp
       resp' = [Body("dashboard", "", "summary", TRUE) EXCEPT
                    !.scripts = all_scripts, !.total = Cardinality(all_scripts),
                    !.running_scripts = Len(RUNNING_PROCESSES)]
    /\ UNCHANGED <<scripts, stored, logs, RUNNING_PROCESSES, procs, restart, watch>>

\* ---- POST /restart-all ----
\* restart_all awaits stop_script and start_script directly and sleeps with
\* time.sleep: no other handler runs until it returns, but the operating
\* system moves on between its steps.
RestartBegin ==
    /\ Idle
    /\ restart' = [NoRestart EXCEPT !.phase = "loop", !.keys = Keys]
    /\ resp' = NoResp
    /\ UNCHANGED <<scripts, stored, logs, RUNNING_PROCESSES, procs>>

restart_begin == RestartBegin /\ UNCHANGED watch

\* restart_all whose stop failure does not end the name's turn
RestartStopGoesOn(ret) ==
    /\ restart.phase = "loop"
    /\ restart.keys # <<>>
    /\ StopCall(Head(restart.keys), ret)
    /\ restart' = [restart EXCEPT !.phase = "sleep", !.cur = Head(restart.keys),
                                   !.keys = Tail(@)]
    /\ resp' = NoResp
    /\ UNCHANGED <<scripts, stored, logs>>

\* await stop_script(script_name); an exception ends this name's turn
RestartStop(ret) ==
    /\ restart.phase = "loop"
    /\ restart.keys # <<>>
    /\ StopCall(Head(restart.keys), ret)
    /\ restart' = IF ret.code = 200
                  THEN [restart EXCEPT !.phase = "sleep", !.cur = Head(restart.keys),
                                       !.keys = Tail(@)]
                  ELSE [restart EXCEPT !.keys = Tail(@)]
    /\ resp' = NoResp
    /\ UNCHANGED <<scripts, stored, logs>>

restart_stop == (\E ret \in StopRets : RestartStop(ret)) /\ UNCHANGED watch

\* restart_all that counts a name as restarted whatever its start did
RestartStartCountsAll(ret) ==
    /\ restart.phase = "sleep"
    /\ StartCall(restart.cur, ret)
    /\ restart' = [restart EXCEPT !.phase = "loop", !.cur = "",
                                   !.restarted = Append(@, restart.cur)]
    /\ resp' = NoResp
    /\ UNCHANGED <<scripts, stored>>

\* time.sleep(1) is over; await start_script(script_name); restarted.append
RestartStart(ret) ==
    /\ restart.phase = "sleep"
    /\ StartCall(restart.cur, ret)
    /\ restart' = [restart EXCEPT !.phase = "loop", !.cur = "",
                       !.restarted = IF ret.code = 200 THEN Append(@, restart.cur) ELSE @]
    /\ resp' = NoResp
    /\ UNCHANGED <<scripts, stored>>

restart_start == (\E ret \in StartRets : RestartStart(ret)) /\ UNCHANGED watch

RestartEnd ==
    /\ restart.phase = "loop"
    /\ restart.keys = <<>>
    /\ resp' = [Body("restart_all", "", "restarted", TRUE) EXCEPT !.names = restart.restarted]
    /\ restart' = NoRestart
    /\ UNCHANGED <<scripts, stored, logs, RUNNING_PROCESSES, procs>>

restart_end == RestartEnd /\ UNCHANGED watch

\* The response goes to the client.  Sending follows the handler's return at
\* once: a step of the operating system in between changes nothing that the
\* same step after the sending would not, so the model takes it afterwards.
reply ==
    /\ resp # NoResp
    /\ resp' = NoResp
    /\ UNCHANGED <<scripts, stored, logs, RUNNING_PROCESSES, procs, restart, watch>>

\* ---- the operating system ----
\* A supervised process prints a line: its stdout and stderr are the log file
\* of its script, opened for appending.  No handler looks into a line, so a
\* line is modelled by its position in the file.
ProcWrite(p) ==
    /\ resp = NoResp
    /\ procs[p] # Free
    /\ LET path == LogFile(procs[p].owner) IN
       /\ Len(logs[path]) < MaxLogLen
       /\ logs' = [logs EXCEPT ![path] = Append(@, Len(@) + 1)]
    /\ resp' = NoResp
    /\ UNCHANGED <<scripts, stored, RUNNING_PROCESSES, procs, restart, watch>>

\* A process ends (it returns, it crashes, a signal takes effect) and is
\* reaped: its pid names no process any more.
ProcExit(p) ==
    /\ resp = NoResp
    /\ procs[p] # Free
    /\ procs' = [procs EXCEPT ![p] = Free]
    /\ resp' = NoResp
    /\ UNCHANGED <<scripts, stored, logs, RUNNING_PROCESSES, restart, watch>>

Next ==
    \/ root
    \/ health_check
    \/ \E n \in Names : upload_script(n, SmallFile)
    \/ \E n \in Names : start_script(n)
    \/ \E n \in Names : stop_script(n)
    \/ \E n \in Names : get_status(n)
    \/ \E n \in Names, lines \in LineArgs : get_logs(n, lines)
    \/ list_scripts
    \/ dashboard
    \/ restart_begin
    \/ restart_stop
    \/ restart_start
    \/ restart_end
    \/ reply
    \/ \E p \in Pids : ProcWrite(p)
    \/ \E p \in Pids : ProcExit(p)

Spec == Init /\ [][Next]_vars

\* ---- a burst of concurrent POST /start requests ----
\* The requests of all callers are in flight at once; the event loop takes
\* them in any order, one start_script at a time.
InitRace ==
    /\ scripts \in SUBSET Names
    /\ stored = [n \in scripts |-> SmallFile]
    /\ logs = <<>>
    /\ RUNNING_PROCESSES = <<>>
    /\ procs = [p \in Pids |-> Free]
    /\ resp = NoResp
    /\ restart = NoRestart
    /\ race \in {[NoRace EXCEPT !.req = r] : r \in [Callers -> Names]}
    /\ hist = NoHist
    /\ handles = 0
    /\ upl = [c \in Callers |-> NoUpload]

race_start(c) ==
    /\ race.ans[c] = NoAnswer
    /\ race.req[c] # ""
    /\ StartRequest(race.req[c])
    /\ race' = [race EXCEPT !.ans[c] = [code |-> resp'.code, status |-> resp'.status,
                                        pid |-> resp'.pid],
                            !.spawned[race.req[c]] = IF procs' = procs THEN @ ELSE @ + 1]
    /\ UNCHANGED <<hist, handles, upl>>

NextRace ==
    \/ \E c \in Callers : race_start(c)
    \/ reply
    \/ \E p \in Pids : ProcWrite(p)
    \/ \E p \in Pids : ProcExit(p)

SpecRace == InitRace /\ [][NextRace]_vars

\* ---- restart_all, with a record of what it did ----
\* The program with scripts that print nothing; every step of restart_all
\* writes down what it did.
rec_begin ==
    /\ RestartBegin
    /\ hist' = [NoHist EXCEPT !.before = RUNNING_PROCESSES]
    /\ UNCHANGED <<race, handles, upl>>

rec_stop ==
    /\ \E ret \in StopRets :
          /\ RestartStop(ret)
          /\ hist' = IF restart'.phase = "sleep"
                     THEN [hist EXCEPT !.stop = ret.code]
                     ELSE [hist EXCEPT !.done = Append(@, [name |-> Head(restart.keys),
                               stop |-> ret.code, start |-> 0, new |-> NoEntry])]
    /\ UNCHANGED <<race, handles, upl>>

rec_start ==
    /\ \E ret \in StartRets :
          /\ RestartStart(ret)
          /\ hist' = [hist EXCEPT !.stop = 0,
                         !.done = Append(@, [name |-> restart.cur, stop |-> hist.stop,
                             start |-> ret.code,
                             new |-> IF ret.status = "started"
                                     THEN EntryIn(RUNNING_PROCESSES', restart.cur)
                                     ELSE NoEntry])]
    /\ UNCHANGED <<race, handles, upl>>

rec_end ==
    /\ RestartEnd
    /\ hist' = NoHist
    /\ UNCHANGED <<race, handles, upl>>

NextRestart ==
    \/ \E n \in Names : upload_script(n, SmallFile)
    \/ \E n \in Names : start_script(n)
    \/ \E n \in Names : stop_script(n)
    \/ rec_begin
    \/ rec_stop
    \/ rec_start
    \/ rec_end
    \/ reply
    \/ \E p \in Pids : ProcExit(p)

SpecRestart == Init /\ [][NextRestart]_vars

\* ---- uploads that wait for their body ----
\* Each caller uploads one file; `await file.read()` suspends the handler, so
\* the opens and the writes of the callers interleave in any order.
NextUpload ==
    \/ \E c \in Callers, n \in Names, content \in Contents : UploadOpen(c, n, content)
    \/ \E c \in Callers : UploadWrite(c)
    \/ reply

SpecUpload == Init /\ [][NextUpload]_vars

\* ---- the log file handles of start_script ----
\* start_script passes open(log_file, 'a') to Popen and never closes it: when
\* the handler returns or raises, the file object is still open (an exception
\* holds it through its traceback) and is closed only when the interpreter
\* finalizes it.
spawn_start(n) ==
    /\ handles < MaxHandles
    /\ StartRequest(n)
    /\ handles' = IF resp'.status = "started" \/ resp'.code = 500
                  THEN handles + 1 ELSE handles
    /\ UNCHANGED <<race, hist, upl>>

\* The interpreter finalizes the file objects nothing refers to any more.
Collect ==
    /\ resp = NoResp
    /\ handles > 0
    /\ handles' = 0
    /\ UNCHANGED <<scripts, stored, logs, RUNNING_PROCESSES, procs, resp, restart,
                   race, hist, upl>>

NextSpawn ==
    \/ \E n \in Names : upload_script(n, SmallFile)
    \/ \E n \in Names : spawn_start(n)
    \/ \E n \in Names : stop_script(n)
    \/ reply
    \/ Collect
    \/ \E p \in Pids : ProcExit(p)

SpecSpawn == Init /\ [][NextSpawn]_vars

\* ---- scripts that fork ----
\* A supervised process forks: the child is in its parent's process group.
Fork(p, q) ==
    /\ resp = NoResp
    /\ procs[p] # Free
    /\ procs[p].st = "running"
    /\ PidFree(q)
    /\ procs' = [procs EXCEPT ![q] = [owner |-> procs[p].owner, pgid |-> procs[p].pgid,
                                      st |-> "running"]]
    /\ UNCHANGED <<scripts, stored, logs, RUNNING_PROCESSES, resp, restart, watch>>

\* A forked process calls os.setsid: it leaves the group and leads its own.
Setsid(q) ==
    /\ resp = NoResp
    /\ procs[q] # Free
    /\ procs[q].st = "running"
    /\ procs[q].pgid # q
    /\ procs' = [procs EXCEPT ![q].pgid = q]
    /\ UNCHANGED <<scripts, stored, logs, RUNNING_PROCESSES, resp, restart, watch>>

NextGroups ==
    \/ \E n \in Names : upload_script(n, SmallFile)
    \/ \E n \in Names : start_script(n)
    \/ \E n \in Names : stop_script(n)
    \/ reply
    \/ \E p, q \in Pids : Fork(p, q)
    \/ \E q \in Pids : Setsid(q)
    \/ \E p \in Pids : ProcExit(p)

SpecGroups == Init /\ [][NextGroups]_vars

\* ---- what the claims say ----
\* The processes the supervisor spawned for script n that the operating
\* system still has.
LiveFor(n) == {p \in Pids : procs[p] # Free /\ procs[p].owner = n}
\* Those of them that no successful stop has signalled.
RunningFor(n) == {p \in LiveFor(n) : procs[p].st = "running"}
EntriesFor(n) == {i \in 1..Len(RUNNING_PROCESSES) : RUNNING_PROCESSES[i].name = n}

\* C1 as stated: in every reachable state each script name has at most one
\* live operating-system process spawned by the supervisor for it.
C1_AtMostOneLiveProcess == \A n \in Names : Cardinality(LiveFor(n)) <= 1

\* C1 as amended: in every reachable state each script name has at most one
\* entry in the table and at most one live process spawned for it that no
\* successful stop has signalled (a process that a stop has signalled may
\* still be alive beside the one a later start spawned).
C1_AtMostOneInstance ==
    \A n \in Names : Cardinality(EntriesFor(n)) <= 1 /\ Cardinality(RunningFor(n)) <= 1

\* A stop and a later start of the same name, the stopped process not yet gone.
C1_Witness ==
    \E n \in Names : Tracked(n) /\ RunningFor(n) # {} /\ LiveFor(n) # RunningFor(n)

C3_StartIdempotent ==
    [][\A n \in Names :
          /\ (resp'.op = "start" /\ resp'.name = n /\ start_script(n) /\ Tracked(n)) =>
                /\ RUNNING_PROCESSES' = RUNNING_PROCESSES
                /\ procs' = procs
                /\ resp'.code = 200
                /\ resp'.status = "already_running"
                /\ resp'.pid = Entry(n).pid
          /\ (Tracked(n) /\ Tracked(n)') => Entry(n)' = Entry(n)
          /\ (Tracked(n) /\ ~Tracked(n)') =>
                (resp'.op = "stop" /\ resp'.name = n) \/ restart.phase = "loop"]_vars

\* A start answered "already running" with the pid of the entry.
C3_Witness ==
    /\ resp.op = "start"
    /\ resp.status = "already_running"
    /\ Tracked(resp.name)
    /\ resp.pid = Entry(resp.name).pid

\* C4: a start of a name with no file in the script store answers 404, spawns
\* nothing and leaves the table, the logs and the store as they were.
C4_StartMissingNotFound ==
    [][\A n \in Names :
          (resp'.op = "start" /\ resp'.name = n /\ start_script(n) /\ n \notin scripts) =>
              /\ resp'.code = 404
              /\ UNCHANGED <<scripts, stored, logs, RUNNING_PROCESSES, procs>>]_vars

\* A start of a missing script answered 404, the table empty.
C4_Witness ==
    /\ resp.op = "start"
    /\ resp.code = 404
    /\ resp.name \notin scripts
    /\ RUNNING_PROCESSES = <<>>

\* C5: a stop of an untracked name answers 404, signals no process and leaves
\* the table as it was.
C5_StopUntrackedNotRunning ==
    [][\A n \in Names :
          (resp'.op = "stop" /\ resp'.name = n /\ stop_script(n) /\ ~Tracked(n)) =>
              /\ resp'.code = 404
              /\ UNCHANGED <<RUNNING_PROCESSES, procs>>]_vars

\* A stop of an untracked name answered 404 while another name is tracked.
C5_Witness ==
    /\ resp.op = "stop"
    /\ resp.code = 404
    /\ ~Tracked(resp.name)
    /\ RUNNING_PROCESSES # <<>>

\* C6: a stop of a tracked name whose pid names no process fails; a stop of a
\* tracked name that fails answers 500, signals nothing and leaves the table
\* as it was.
C6_StopFailureKeepsEntry ==
    [][\A n \in Names :
          (resp'.op = "stop" /\ resp'.name = n /\ stop_script(n) /\ Tracked(n)) =>
              /\ procs[Entry(n).pid] = Free => resp'.code # 200
              /\ resp'.code # 200 =>
                    /\ resp'.code = 500
                    /\ RUNNING_PROCESSES' = RUNNING_PROCESSES
                    /\ procs' = procs]_vars

\* A stop of a tracked name whose process is gone, answered 500, entry kept.
C6_Witness ==
    /\ resp.op = "stop"
    /\ resp.code = 500
    /\ Tracked(resp.name)
    /\ procs[Entry(resp.name).pid] = Free

\* C7: a successful start records the pid of the process it spawned; the
\* entry leaves the table only by a stop of its name; and while the name is
\* tracked and that process exists, a status request answers "running" with
\* that pid.
C7_StatusRunningUntilStop ==
    [][\A n \in Names :
          /\ (resp'.status = "started" /\ resp'.name = n /\ start_script(n)) =>
                /\ procs[resp'.pid] = Free
                /\ procs'[resp'.pid] = Popen(n, resp'.pid)
                /\ Tracked(n)'
                /\ Entry(n)'.pid = resp'.pid
          /\ (Tracked(n) /\ ~Tracked(n)') =>
                \/ stop_script(n)
                \/ restart_stop /\ Head(restart.keys) = n
          /\ (resp'.op = "status" /\ resp'.name = n /\ get_status(n) /\ Tracked(n)
                  /\ procs[Entry(n).pid] # Free /\ procs[Entry(n).pid].owner = n) =>
                /\ resp'.status = "running"
                /\ resp'.pid = Entry(n).pid]_vars

\* A status answered "running" with the pid of the live process of the name.
C7_Witness ==
    /\ resp.op = "status"
    /\ resp.status = "running"
    /\ Tracked(resp.name)
    /\ resp.pid = Entry(resp.name).pid
    /\ procs[resp.pid] = Popen(resp.name, resp.pid)

IsPrefix(s, t) == Len(s) <= Len(t) /\ SubSeq(t, 1, Len(s)) = s
Min(a, b) == IF a < b THEN a ELSE b
\* the last m lines of s, in order
LastLines(s, m) == SubSeq(s, Len(s) - m + 1, Len(s))

C9_TailLastLines ==
    [][\A n \in Names, k \in LineArgs :
          LET log_file == IF Tracked(n) THEN Entry(n).log_file ELSE LogFile(n) IN
          (resp'.op = "logs" /\ resp'.name = n /\ get_logs(n, k) /\ k >= 0 /\ LogExists(log_file)) =>
              /\ Len(resp'.lines) <= k
              /\ resp'.lines = LastLines(logs[log_file], Min(k, Len(logs[log_file])))
              /\ resp'.total = Len(logs[log_file])]_vars

\* C10: a status request never changes the table; for a tracked name whose
\* pid names no process it answers with status "error" (HTTP 200).
C10_StatusErrorKeepsEntry ==
    [][\A n \in Names :
          (resp'.op = "status" /\ resp'.name = n /\ get_status(n)) =>
              /\ RUNNING_PROCESSES' = RUNNING_PROCESSES
              /\ (Tracked(n) /\ procs[Entry(n).pid] = Free) =>
                    (resp'.code = 200 /\ resp'.status = "error")]_vars

\* A status answered "error" for a tracked name whose process is gone.
C10_Witness ==
    /\ resp.op = "status"
    /\ resp.status = "error"
    /\ Tracked(resp.name)
    /\ procs[Entry(resp.name).pid] = Free

\* C13 as stated: in every reachable state no two entries of the table, for
\* different names, hold the same pid.
C13_PidsDistinct ==
    \A i, j \in 1..Len(RUNNING_PROCESSES) :
        i # j => RUNNING_PROCESSES[i].pid # RUNNING_PROCESSES[j].pid

\* C17 as stated: every response of every operation carries a timestamp.
C17_EveryResponseTimestamped == resp # NoResp => resp.ts

\* C18: while a tracked name's pid names no process, every step keeps the
\* entry as it is and spawns no process for the name; a start answers
\* "already running" with the stale pid, a stop answers 500, a restart-all
\* does not restart the name, and a status answers "error".
C18_StaleEntryStays ==
    [][\A n \in Names :
          (Tracked(n) /\ procs[Entry(n).pid] = Free) =>
              /\ Tracked(n)'
              /\ Entry(n)' = Entry(n)
              /\ \A p \in Pids : (procs'[p] # procs[p] /\ procs'[p] # Free) => procs'[p].owner # n
              /\ (resp'.op = "start" /\ resp'.name = n /\ start_script(n)) =>
                    (resp'.status = "already_running" /\ resp'.pid = Entry(n).pid)
              /\ (resp'.op = "stop" /\ resp'.name = n /\ stop_script(n)) => resp'.code = 500
              /\ (resp'.op = "status" /\ resp'.name = n /\ get_status(n)) => resp'.status = "error"
              /\ (restart.phase = "loop" /\ restart.keys # <<>> /\ Head(restart.keys) = n
                      /\ restart_stop) =>
                    (restart'.phase = "loop" /\ restart'.restarted = restart.restarted)]_vars

\* A restart-all has just passed over a name whose pid names no process: the
\* name is still tracked and was not restarted.
C18_Witness ==
    /\ restart.phase = "loop"
    /\ restart.keys = <<>>
    /\ restart.restarted = <<>>
    /\ \E n \in Names : Tracked(n) /\ procs[Entry(n).pid] = Free

\* The names of the entries of a table, in order.
NamesOf(d) == [i \in 1..Len(d) |-> d[i].name]
\* The names visited whose stop and start both succeeded, in order.
BothOk(done) == NamesOf(SelectSeq(done, LAMBDA d : d.stop = 200 /\ d.start = 200))
\* restart_all is about to return.
RestartReturns == restart.phase = "loop" /\ restart.keys = <<>>

\* C11: a restart-all sets out with the names tracked when it is called and
\* visits them one after another in that order; a name's start is attempted
\* only after its stop succeeded; the call answers 200 whatever happened, and
\* the list it returns is exactly the names whose stop and start both
\* succeeded.
C11_RestartAllReport ==
    [][/\ rec_begin => restart'.keys = Keys
       /\ restart.phase # "idle" =>
             /\ NamesOf(hist.done) \o (IF restart.phase = "sleep" THEN <<restart.cur>> ELSE <<>>)
                    \o restart.keys = NamesOf(hist.before)
             /\ restart.phase = "sleep" => hist.stop = 200
             /\ \A i \in 1..Len(hist.done) :
                    hist.done[i].start # 0 => hist.done[i].stop = 200
       /\ (RestartReturns /\ rec_end) =>
             /\ resp'.code = 200
             /\ resp'.names = BothOk(hist.done)]_vars

\* A restart-all returns after a name was restarted and another was not.
C11_Witness ==
    /\ resp.op = "restart_all"
    /\ Len(resp.names) = 1
    /\ Len(RUNNING_PROCESSES) = 2

\* C20: when restart-all returns, every tracked name was tracked when it was
\* called; every name of the returned list is tracked with the entry its new
\* start inserted, and every name whose stop and start succeeded is in that
\* list; a name whose stop failed is tracked with its old entry; a name whose
\* stop succeeded and whose start failed is not tracked.
C20_RestartAllTable ==
    RestartReturns =>
        /\ \A n \in Names : Tracked(n) => \E i \in 1..Len(hist.before) : hist.before[i].name = n
        /\ \A k \in 1..Len(restart.restarted) :
              LET n == restart.restarted[k] IN
              /\ Tracked(n)
              /\ \E i \in 1..Len(hist.done) :
                    /\ hist.done[i].name = n
                    /\ hist.done[i].new # NoEntry
                    /\ Entry(n) = hist.done[i].new
        /\ \A i \in 1..Len(hist.done) :
              LET d == hist.done[i] IN
              /\ (d.stop = 200 /\ d.start = 200) =>
                    \E k \in 1..Len(restart.restarted) : restart.restarted[k] = d.name
              /\ d.stop # 200 => (Tracked(d.name) /\ Entry(d.name) = hist.before[i])
              /\ (d.stop = 200 /\ d.start # 200) => ~Tracked(d.name)

\* A restart-all is about to return: it restarted one name and failed to stop
\* another.
C20_Witness ==
    /\ RestartReturns
    /\ Len(hist.done) = 2
    /\ \E i, j \in 1..2 : hist.done[i].stop # 200 /\ hist.done[j].start = 200

\* The names GET /scripts lists.
Listed == {e.name : e \in resp.scripts}

\* C14 as stated: the list names every stored artifact, the running flag of a
\* listed name is true exactly when the name is tracked, and every tracked
\* name is listed with the flag true.
C14_ListEveryArtifact ==
    resp.op = "list" =>
        /\ Listed = scripts
        /\ \A e \in resp.scripts : e.is_running = Tracked(e.name)
        /\ \A n \in Names : Tracked(n) =>
              [name |-> n, size |-> Len(stored[n]), is_running |-> TRUE] \in resp.scripts

\* C15 as stated: once every upload in flight has completed, each file holds
\* exactly the bytes of one of the uploads made to its name.
C15_LastWriterWins ==
    (\A c \in Callers : upl[c].phase # "read") =>
        \A n \in scripts :
            \E c \in Callers : upl[c].phase = "done" /\ upl[c].name = n
                                  /\ stored[n] = upl[c].content

\* C19 as stated: in the dashboard summary running_scripts is the number of
\* listed scripts whose status is "running" and is at most total_scripts.
C19_DashboardConsistent ==
    resp.op = "dashboard" =>
        /\ resp.running_scripts = Cardinality({e \in resp.scripts : e.status = "running"})
        /\ resp.running_scripts <= resp.total

\* C12 as stated: a successful start puts the process it spawns in a new
\* group of its own; a successful stop of n signals every process of the
\* group of the entry's pid, and signals no process outside that group and
\* no process of another script.
C12_StopKillsOwnGroupOnly ==
    [][\A n \in Names :
          /\ (resp'.status = "started" /\ resp'.name = n /\ start_script(n)) =>
                /\ procs'[resp'.pid].pgid = resp'.pid
                /\ \A q \in Pids : procs[q] = Free \/ procs[q].pgid # resp'.pid
          /\ (resp'.op = "stop" /\ resp'.name = n /\ resp'.code = 200 /\ stop_script(n)) =>
                \A p \in Pids :
                    procs[p] # Free =>
                        /\ procs[p].pgid = Entry(n).pid => procs'[p].st = "killed"
                        /\ procs'[p] # procs[p] =>
                              (procs[p].pgid = Entry(n).pid /\ procs[p].owner = n)]_vars

\* C16 as stated: a start whose process creation fails answers 500, adds no
\* entry and leaves no log file handle open.
C16_SpawnFailureReleasesLog ==
    [][\A n \in Names :
          (resp'.op = "start" /\ resp'.name = n /\ resp'.code = 500 /\ spawn_start(n)) =>
              /\ RUNNING_PROCESSES' = RUNNING_PROCESSES
              /\ ~Tracked(n)'
              /\ handles' = handles]_vars
====
